---- MODULE Spec2Model ----
(***************************************************************************)
(* FolderEx: hierarchy construction (directory handle / ZIP archive),      *)
(* canonical sort, text rendering and expansion state, modelled from       *)
(* src/components/TextFolderStructure.jsx, the folder view                 *)
(* (src/unnamed/part_003) and App (src/unnamed/part_001).                  *)
(*                                                                         *)
(* JavaScript strings that the code splits, joins or compares are          *)
(* sequences of one-character strings; error messages, which the code      *)
(* only concatenates, are TLA+ strings.  The JavaScript value null is      *)
(* the record Null.                                                        *)
(***************************************************************************)
EXTENDS Integers, Sequences, FiniteSets, Bags, TLC

Null == [type |-> "null"]

(***************************************************************************)
(* Strings                                                                 *)
(***************************************************************************)

\* Letters in the order of the default collation (primary strength); a
\* capital letter has the primary rank of its small letter.
CollationOrder ==
  <<".", "a", "b", "c", "d", "e", "f", "g", "h", "i", "j", "k", "l", "m",
    "n", "o", "p", "q", "r", "s", "t", "u", "v", "w", "x", "y", "z">>

Capitals ==
  [A |-> "a", B |-> "b", D |-> "d", E |-> "e", I |-> "i", M |-> "m",
   P |-> "p", R |-> "r", Z |-> "z"]

IsCapital(c) == c \in DOMAIN Capitals

toLowerCase(c) == IF IsCapital(c) THEN Capitals[c] ELSE c

PrimaryRank(c) ==
  CHOOSE k \in 1..Len(CollationOrder) : CollationOrder[k] = toLowerCase(c)

TertiaryRank(c) == IF IsCapital(c) THEN 1 ELSE 0

PrimaryKey(s) == [k \in 1..Len(s) |-> PrimaryRank(s[k])]

TertiaryKey(s) == [k \in 1..Len(s) |-> TertiaryRank(s[k])]

\* Lexicographic comparison of two sequences of ranks.
RECURSIVE LexCompare(_, _)
LexCompare(a, b) ==
  IF a = <<>> /\ b = <<>> THEN 0
  ELSE IF a = <<>> THEN -1
  ELSE IF b = <<>> THEN 1
  ELSE IF Head(a) < Head(b) THEN -1
  ELSE IF Head(a) > Head(b) THEN 1
  ELSE LexCompare(Tail(a), Tail(b))

\* String.prototype.localeCompare on the letters above: primary differences
\* decide first, case decides between strings equal up to case.
localeCompare(a, b) ==
  LET p == LexCompare(PrimaryKey(a), PrimaryKey(b))
  IN  IF p # 0 THEN p ELSE LexCompare(TertiaryKey(a), TertiaryKey(b))

\* relativePath.split('/')
RECURSIVE split(_)
split(s) ==
  IF s = <<>> THEN << <<>> >>
  ELSE LET rest == split(Tail(s))
       IN  IF Head(s) = "/" THEN << <<>> >> \o rest
           ELSE << <<Head(s)>> \o Head(rest) >> \o Tail(rest)

\* .filter(part => part.length > 0)
nonEmptyParts(ps) == SelectSeq(ps, LAMBDA part : Len(part) > 0)

DotZip == <<".", "z", "i", "p">>

LowerSeq(s) == [k \in 1..Len(s) |-> toLowerCase(s[k])]

\* /\.zip$/i.test(name)
endsWithZip(name) ==
  /\ Len(name) >= 4
  /\ LowerSeq(SubSeq(name, Len(name) - 3, Len(name))) = DotZip

\* name.replace(/\.zip$/i, '')
stripZip(name) ==
  IF endsWithZip(name) THEN SubSeq(name, 1, Len(name) - 4) ELSE name

(***************************************************************************)
(* Sort pass                                                               *)
(***************************************************************************)

\* The comparator of both builders: same kind by name, else directories
\* first.
compareNodesReversed(a, b) ==
  IF a.type = b.type THEN localeCompare(a.name, b.name)
  ELSE IF a.type = "directory" THEN 1 ELSE -1

compareNodes(a, b) ==
  IF a.type = b.type THEN localeCompare(a.name, b.name)
  ELSE IF a.type = "directory" THEN -1 ELSE 1

\* Array.prototype.sort with compareNodes: a stable sort.
RECURSIVE insertSorted(_, _)
insertSorted(sorted, n) ==
  IF sorted = <<>> THEN <<n>>
  ELSE IF compareNodes(n, Head(sorted)) < 0 THEN <<n>> \o sorted
  ELSE <<Head(sorted)>> \o insertSorted(Tail(sorted), n)

\* No sort at all: the children stay in encounter order.
sortChildrenSkipped(children) == children

RECURSIVE sortChildren(_)
sortChildren(children) ==
  IF children = <<>> THEN <<>>
  ELSE insertSorted(sortChildren(SubSeq(children, 1, Len(children) - 1)),
                    children[Len(children)])

hasChildren(node) == "children" \in DOMAIN node

RECURSIVE sortStructure(_)
sortStructure(node) ==
  IF ~hasChildren(node) THEN node
  ELSE LET sorted == sortChildren(node.children)
       IN  [node EXCEPT !.children =
              [k \in 1..Len(sorted) |-> sortStructure(sorted[k])]]

(***************************************************************************)
(* Trees.  A node is a record with name, type and path; a directory has    *)
(* children, a file has zipEntry or fileEntry, the root of an archive tree *)
(* has fileMap.  A place in a tree is the sequence of child indexes        *)
(* leading to it from the root.                                            *)
(***************************************************************************)

RECURSIVE NodeAt(_, _)
NodeAt(node, loc) ==
  IF loc = <<>> THEN node ELSE NodeAt(node.children[Head(loc)], Tail(loc))

RECURSIVE ReplaceAt(_, _, _)
ReplaceAt(node, loc, new) ==
  IF loc = <<>> THEN new
  ELSE [node EXCEPT !.children[Head(loc)] =
          ReplaceAt(node.children[Head(loc)], Tail(loc), new)]

\* Index of the first child named part, 0 when there is none
\* (current.children.find(child => child.name === part)).
findChild(children, part) ==
  IF \E k \in 1..Len(children) : children[k].name = part
  THEN CHOOSE k \in 1..Len(children) :
         /\ children[k].name = part
         /\ \A j \in 1..(k - 1) : children[j].name # part
  ELSE 0

MapSet(map, key, value) ==
  [k \in DOMAIN map \cup {key} |-> IF k = key THEN value ELSE map[k]]

(***************************************************************************)
(* Archive builder                                                         *)
(***************************************************************************)

MAX_FILE_SIZE_MB == 50

SizeLimit == MAX_FILE_SIZE_MB * 1024 * 1024

SizeLimitMessage ==
  "File exceeds " \o ToString(MAX_FILE_SIZE_MB) \o "MB limit"

\* What the engine reports when .find is read from a node without children.
TypeErrorMessage == "Cannot read properties of undefined (reading 'find')"

zipFailure(message) == "Failed to process ZIP: " \o message

\* A size test that takes file.size for kibibytes.
exceedsLimitInKiB(file) == file.size \div 1024 > SizeLimit

exceedsLimit(file) == file.size > SizeLimit

zipRoot(file) ==
  [name |-> stripZip(file.name), type |-> "directory", path |-> <<>>,
   children |-> <<>>, fileMap |-> <<>>]

\* A mistaken fileMap registration: under the name instead of the path.
registerFileByName(root, fileNode, zipEntry) ==
  [root EXCEPT !.fileMap = MapSet(root.fileMap, fileNode.name, zipEntry)]

registerFile(root, fileNode, zipEntry) ==
  [root EXCEPT !.fileMap = MapSet(root.fileMap, fileNode.path, zipEntry)]

\* A lookup that only finds directories.
lookupDirectoryOnly(children, part) ==
  findChild(SelectSeq(children, LAMBDA c : c.type = "directory"), part)

\* A lookup that never finds the child: every part makes a new node.
lookupNothing(children, part) == 0

lookupChild(children, part) == findChild(children, part)

\* A kind taken from the position of the part alone.
isDirectoryByPosition(zipEntry, parts, i) == i < Len(parts)

\* const isDirectory = zipEntry.dir || i < parts.length - 1, i counted
\* from 1.
isDirectoryPart(zipEntry, parts, i) == zipEntry.dir \/ i < Len(parts)

\* The body of parts.forEach((part, i) => ...), i counted from 1.  w holds
\* the tree, the place of `current` and whether the body threw.
partStep(w, zipEntry, parts, i) ==
  LET current == NodeAt(w.root, w.current)
      part == parts[i]
      isDirectory == isDirectoryPart(zipEntry, parts, i)
  IN  IF ~hasChildren(current) THEN [w EXCEPT !.threw = TRUE]
      ELSE
        LET existing == lookupChild(current.children, part)
            newPath == current.path \o <<"/">> \o part
            newDir == [name |-> part, type |-> "directory",
                       path |-> newPath, children |-> <<>>]
            fileNode == [name |-> part, type |-> "file",
                         path |-> newPath, zipEntry |-> zipEntry]
            pushed(n) ==
              ReplaceAt(w.root, w.current,
                [current EXCEPT !.children = Append(current.children, n)])
        IN  IF isDirectory
            THEN IF existing = 0
                 THEN [w EXCEPT
                         !.root = pushed(newDir),
                         !.current =
                            w.current \o <<Len(current.children) + 1>>]
                 ELSE [w EXCEPT !.current = w.current \o <<existing>>]
            ELSE IF existing = 0
                 THEN [w EXCEPT
                         !.root = registerFile(pushed(fileNode), fileNode,
                                               zipEntry)]
                 ELSE w

RECURSIVE walkParts(_, _, _, _)
walkParts(w, zipEntry, parts, i) ==
  IF i > Len(parts) \/ w.threw THEN w
  ELSE walkParts(partStep(w, zipEntry, parts, i), zipEntry, parts, i + 1)

entryParts(zipEntry) == nonEmptyParts(split(zipEntry.relativePath))

\* One round of Object.keys(content.files).forEach: the tree after the
\* entry, and whether the walk threw.
addEntry(root, zipEntry) ==
  LET w == walkParts([root |-> root, current |-> <<>>, threw |-> FALSE],
                     zipEntry, entryParts(zipEntry), 1)
  IN  [root |-> w.root, threw |-> w.threw]

RECURSIVE addEntries(_, _, _)
addEntries(root, files, k) ==
  IF k > Len(files) THEN [root |-> root, threw |-> FALSE]
  ELSE LET r == addEntry(root, files[k])
       IN  IF r.threw THEN r ELSE addEntries(r.root, files, k + 1)

\* extractZipStructure after zip.loadAsync has settled.  The result is
\* [ok |-> TRUE, value |-> tree] or [ok |-> FALSE, message |-> ...].
extractAfterLoad(file) ==
  IF file.decodeError # ""
  THEN [ok |-> FALSE, message |-> zipFailure(file.decodeError)]
  ELSE LET r == addEntries(zipRoot(file), file.files, 1)
       IN  IF r.threw
           THEN [ok |-> FALSE, message |-> zipFailure(TypeErrorMessage)]
           ELSE [ok |-> TRUE, value |-> sortStructure(r.root)]

(***************************************************************************)
(* Directory builder                                                       *)
(***************************************************************************)

\* reader.readEntries(resolve, () => resolve([])), called once: the first
\* batch of the listing, or nothing when the listing fails.
readEntries(entry) ==
  IF ~entry.readable \/ entry.batches = <<>> THEN <<>> ELSE entry.batches[1]

RECURSIVE readDirectoryStructure(_, _)
readDirectoryStructure(entry, currentPath) ==
  LET path == IF currentPath # <<>>
              THEN currentPath \o <<"/">> \o entry.name
              ELSE entry.name
      entries == readEntries(entry)
      child(item) ==
        IF item.isDirectory THEN readDirectoryStructure(item, path)
        ELSE [name |-> item.name, type |-> "file",
              path |-> path \o <<"/">> \o item.name, fileEntry |-> item]
  IN  [name |-> entry.name, type |-> "directory", path |-> path,
       children |-> sortChildren([k \in 1..Len(entries) |->
                                     child(entries[k])])]

(***************************************************************************)
(* Text renderer and counting                                              *)
(***************************************************************************)

\* The box-drawing characters are named by their code points.
LastConnector == <<"U+2514", "U+2500", "U+2500", " ">>

MidConnector == <<"U+251C", "U+2500", "U+2500", " ">>

FourSpaces == <<" ", " ", " ", " ">>

\* A continuation unit that is one character short.
BarTwoSpaces == <<"U+2502", " ", " ">>

BarThreeSpaces == <<"U+2502", " ", " ", " ">>

VARIABLES
  viewMode,         \* App: 'text' or 'folder'
  structure,        \* App: the tree, or Null
  error,            \* App: [message |-> ...], or Null
  expandedFolders,  \* App: the set of expanded paths
  isLoading,        \* App: the shared loading flag
  jobs,             \* handleDrop calls waiting for readEntries or loadAsync
  loadAsyncCalls,   \* the items zip.loadAsync has been called for
  lastOp,           \* the handler that ran last, and how it ended
  lastUpdate,       \* the arguments of the last onStructureUpdate call
  bSource,          \* builder run: the decoded archive or directory handle
  bTree,            \* builder run: the tree built so far
  bNext,            \* builder run: index of the next archive entry
  bPhase            \* builder run: "off", "walking", "listing", "threw",
                    \*   "returned"

appVars ==
  <<viewMode, structure, error, expandedFolders, isLoading, jobs,
    loadAsyncCalls, lastOp, lastUpdate>>

builderVars == <<bSource, bTree, bNext, bPhase>>

vars == <<appVars, builderVars>>

\* A connector that does not tell the last child from the others.
connectorAlwaysMid(isLast) == MidConnector

connectorOf(isLast) == IF isLast THEN LastConnector ELSE MidConnector

lineOf(node, prefix, isLast) ==
  prefix \o connectorOf(isLast) \o node.name
    \o (IF node.type = "directory" THEN <<"/">> ELSE <<>>)

\* A renderer that descends only into expanded directories, as the
\* icon-annotated renderer of the folder view does.
RECURSIVE renderExpandedOnly(_, _, _, _)
RECURSIVE renderExpandedChildren(_, _, _)
renderExpandedChildren(children, prefix, i) ==
  IF i > Len(children) THEN <<>>
  ELSE renderExpandedOnly(children[i], prefix, i = Len(children), FALSE)
       \o renderExpandedChildren(children, prefix, i + 1)

renderExpandedOnly(node, prefix, isLast, isRoot) ==
  LET isExpanded == node.path \in expandedFolders
  IN  IF isRoot
      THEN << node.name \o <<"/">> >>
           \o (IF isExpanded
               THEN renderExpandedChildren(node.children, FourSpaces, 1)
               ELSE <<>>)
      ELSE IF \/ node.type # "directory"
              \/ ~hasChildren(node)
              \/ Len(node.children) = 0
              \/ ~isExpanded
           THEN << lineOf(node, prefix, isLast) >>
           ELSE << lineOf(node, prefix, isLast) >>
                \o renderExpandedChildren(node.children,
                     prefix \o (IF isLast THEN FourSpaces
                                ELSE BarThreeSpaces), 1)

\* A renderer that marks every child as the last one.
RECURSIVE renderAllLast(_, _, _, _)
RECURSIVE renderAllLastChildren(_, _, _)
renderAllLastChildren(children, prefix, i) ==
  IF i > Len(children) THEN <<>>
  ELSE renderAllLast(children[i], prefix, TRUE, FALSE)
       \o renderAllLastChildren(children, prefix, i + 1)

renderAllLast(node, prefix, isLast, isRoot) ==
  IF isRoot
  THEN << node.name \o <<"/">> >>
       \o renderAllLastChildren(node.children, FourSpaces, 1)
  ELSE IF \/ node.type # "directory"
          \/ ~hasChildren(node)
          \/ Len(node.children) = 0
       THEN << lineOf(node, prefix, isLast) >>
       ELSE << lineOf(node, prefix, isLast) >>
            \o renderAllLastChildren(node.children, prefix \o FourSpaces, 1)

\* renderStructure of the text view; renderChildren is its flatMap.
RECURSIVE renderStructure(_, _, _, _)
RECURSIVE renderChildren(_, _, _)
renderChildren(children, prefix, i) ==
  IF i > Len(children) THEN <<>>
  ELSE renderStructure(children[i], prefix, i = Len(children), FALSE)
       \o renderChildren(children, prefix, i + 1)

renderStructure(node, prefix, isLast, isRoot) ==
  IF isRoot
  THEN << node.name \o <<"/">> >>
       \o renderChildren(node.children, FourSpaces, 1)
  ELSE IF \/ node.type # "directory"
          \/ ~hasChildren(node)
          \/ Len(node.children) = 0
       THEN << lineOf(node, prefix, isLast) >>
       ELSE << lineOf(node, prefix, isLast) >>
            \o renderChildren(node.children,
                 prefix \o (IF isLast THEN FourSpaces ELSE BarThreeSpaces),
                 1)

\* The text the text view shows, copies and downloads.
renderText(node) == renderStructure(node, <<>>, TRUE, TRUE)

\* The glyphs of the icon-annotated output, named by code point.
ClosedFolderIcon == "U+1F4C1"

OpenFolderIcon == "U+1F4C2"

FileIcon == "U+1F4C4"

iconOf(node, isExpanded) ==
  IF node.type = "directory"
  THEN (IF isExpanded THEN OpenFolderIcon ELSE ClosedFolderIcon)
  ELSE FileIcon

\* A line whose icon stands before the connector.
iconLineOfIconFirst(node, prefix, isLast, isExpanded) ==
  prefix \o <<iconOf(node, isExpanded), " ">> \o connectorOf(isLast)
    \o node.name \o (IF node.type = "directory" THEN <<"/">> ELSE <<>>)

iconLineOf(node, prefix, isLast, isExpanded) ==
  prefix \o connectorOf(isLast) \o <<iconOf(node, isExpanded), " ">>
    \o node.name \o (IF node.type = "directory" THEN <<"/">> ELSE <<>>)

\* renderStructureWithIcons of the folder view's copy and download.
RECURSIVE renderStructureWithIcons(_, _, _, _)
RECURSIVE renderChildrenWithIcons(_, _, _)
renderChildrenWithIcons(children, prefix, i) ==
  IF i > Len(children) THEN <<>>
  ELSE renderStructureWithIcons(children[i], prefix, i = Len(children),
                                FALSE)
       \o renderChildrenWithIcons(children, prefix, i + 1)

renderStructureWithIcons(node, prefix, isLast, isRoot) ==
  LET isExpanded == node.path \in expandedFolders
  IN  IF isRoot
      THEN << <<ClosedFolderIcon, " ">> \o node.name \o <<"/">> >>
           \o (IF isExpanded
               THEN renderChildrenWithIcons(node.children, FourSpaces, 1)
               ELSE <<>>)
      ELSE IF \/ node.type # "directory"
              \/ ~hasChildren(node)
              \/ Len(node.children) = 0
              \/ ~isExpanded
           THEN << iconLineOf(node, prefix, isLast, isExpanded) >>
           ELSE << iconLineOf(node, prefix, isLast, isExpanded) >>
                \o renderChildrenWithIcons(node.children,
                     prefix \o (IF isLast THEN FourSpaces
                                ELSE BarThreeSpaces), 1)

\* The text the folder view copies and downloads.
renderVisual(node) == renderStructureWithIcons(node, <<>>, TRUE, TRUE)

RECURSIVE countItems(_)
RECURSIVE countChildren(_, _)
countChildren(children, i) ==
  IF i > Len(children) THEN 0
  ELSE countItems(children[i]) + countChildren(children, i + 1)

countItems(node) ==
  IF ~hasChildren(node) THEN 1 ELSE 1 + countChildren(node.children, 1)

(***************************************************************************)
(* Expansion state                                                         *)
(***************************************************************************)

RECURSIVE getAllFolderPaths(_)
RECURSIVE folderPathsOfChildren(_, _)
folderPathsOfChildren(children, i) ==
  IF i > Len(children) THEN <<>>
  ELSE getAllFolderPaths(children[i]) \o folderPathsOfChildren(children, i + 1)

getAllFolderPaths(node) ==
  IF node.type # "directory" THEN <<>>
  ELSE IF ~hasChildren(node) THEN <<node.path>>
  ELSE <<node.path>> \o folderPathsOfChildren(node.children, 1)

\* new Set(allPaths)
newSet(seq) == {seq[k] : k \in 1..Len(seq)}

\* A test that is satisfied by one expanded directory.
areAnyFoldersExpanded ==
  IF structure = Null THEN FALSE
  ELSE LET allPaths == getAllFolderPaths(structure)
       IN  /\ Len(allPaths) > 0
           /\ \E k \in 1..Len(allPaths) : allPaths[k] \in expandedFolders

areAllFoldersExpanded ==
  IF structure = Null THEN FALSE
  ELSE LET allPaths == getAllFolderPaths(structure)
       IN  /\ Len(allPaths) > 0
           /\ \A k \in 1..Len(allPaths) : allPaths[k] \in expandedFolders

(***************************************************************************)
(* Dropped items                                                           *)
(***************************************************************************)

FileEntry(name) == [name |-> name, isDirectory |-> FALSE]

\* A directory handle: whether its listing succeeds, and the batches its
\* reader delivers.
DirEntry(name, readable, batches) ==
  [name |-> name, isDirectory |-> TRUE, readable |-> readable,
   batches |-> batches]

ZipEntry(relativePath) ==
  [relativePath |-> relativePath,
   dir |-> (relativePath # <<>> /\ relativePath[Len(relativePath)] = "/")]

ZipFile(name, size, decodeError, paths) ==
  [name |-> name, size |-> size, decodeError |-> decodeError,
   files |-> [k \in 1..Len(paths) |-> ZipEntry(paths[k])]]

\* proj/{README.md, src/{index.js, utils/helpers.js}}
ProjEntry ==
  DirEntry(<<"p", "r", "o", "j">>, TRUE,
    << << FileEntry(<<"R", "E", "A", "D", "M", "E", ".", "m", "d">>),
          DirEntry(<<"s", "r", "c">>, TRUE,
            << << FileEntry(<<"i", "n", "d", "e", "x", ".", "j", "s">>),
                  DirEntry(<<"u", "t", "i", "l", "s">>, TRUE,
                    << << FileEntry(<<"h", "e", "l", "p", "e", "r", "s",
                                      ".", "j", "s">>) >> >>) >> >>) >> >>)

\* d/{b, a/} whose sub-directory a cannot be listed, and whose reader
\* delivers the file c in a second batch.
PartialEntry ==
  DirEntry(<<"d">>, TRUE,
    << << FileEntry(<<"b">>),
          DirEntry(<<"a">>, FALSE, << << FileEntry(<<"e">>) >> >>) >>,
       << FileEntry(<<"c">>) >> >>)

\* w/{d/{efg}, ab/{c}}: two sub-directories, each with one file, under
\* names of one, two and three characters.
WideEntry ==
  DirEntry(<<"w">>, TRUE,
    << << DirEntry(<<"d">>, TRUE, << << FileEntry(<<"e", "f", "g">>) >> >>),
          DirEntry(<<"a", "b">>, TRUE, << << FileEntry(<<"c">>) >> >>) >> >>)

XZip == <<"x", ".", "Z", "I", "P">>

\* The entries a/, a/b.txt, a/c/, a/c/d.txt, with one-letter extensions.
MergeArchive ==
  ZipFile(XZip, 1024, "",
    << <<"a", "/">>, <<"a", "/", "b", ".", "t">>,
       <<"a", "/", "c", "/">>, <<"a", "/", "c", "/", "d", ".", "t">> >>)

\* A file at a and an entry below a.
ConflictArchive ==
  ZipFile(XZip, 2048, "", << <<"a">>, <<"a", "/", "b">> >>)

CorruptArchive ==
  ZipFile(XZip, SizeLimit, "Corrupted zip: can't find end of central directory",
    <<>>)

OversizeArchive == ZipFile(XZip, SizeLimit + 1, "", << <<"b">>, <<"a">> >>)

\* A DataTransferItem: hasGetAsEntry tells whether webkitGetAsEntry
\* exists, entry is what it returns.
Items ==
  << [kind |-> "none"],
     [kind |-> "string", hasGetAsEntry |-> TRUE, entry |-> Null],
     [kind |-> "string", hasGetAsEntry |-> FALSE],
     [kind |-> "file", hasGetAsEntry |-> TRUE,
      entry |-> FileEntry(<<"n", ".", "t">>),
      file |-> [name |-> <<"n", ".", "t">>, size |-> 10]],
     [kind |-> "file", hasGetAsEntry |-> TRUE, entry |-> ProjEntry],
     [kind |-> "file", hasGetAsEntry |-> TRUE, entry |-> PartialEntry],
     [kind |-> "file", hasGetAsEntry |-> TRUE, entry |-> FileEntry(XZip),
      file |-> MergeArchive],
     [kind |-> "file", hasGetAsEntry |-> TRUE, entry |-> FileEntry(XZip),
      file |-> ConflictArchive],
     [kind |-> "file", hasGetAsEntry |-> TRUE, entry |-> FileEntry(XZip),
      file |-> CorruptArchive],
     [kind |-> "file", hasGetAsEntry |-> FALSE, file |-> OversizeArchive]
  >>

ItemIds == 1..Len(Items)

\* The most handleDrop calls waiting at the same time.
MaxJobs == 2

(***************************************************************************)
(* App state and the handlers                                              *)
(***************************************************************************)

\* The React state the handlers write, as one record.
AppState ==
  [structure |-> structure, error |-> error,
   expandedFolders |-> expandedFolders, isLoading |-> isLoading,
   lastUpdate |-> lastUpdate]

setIsLoading(st, b) == [st EXCEPT !.isLoading = b]

setExpandedFolders(st, set) == [st EXCEPT !.expandedFolders = set]

ErrorOf(message) == [message |-> message]

\* handleStructureUpdate that adds the new paths to the old ones.
handleStructureUpdateKeeping(st, newStructure, errorMsg) ==
  [st EXCEPT
     !.structure = newStructure,
     !.error = errorMsg,
     !.isLoading = FALSE,
     !.expandedFolders =
        IF newStructure # Null
        THEN @ \cup newSet(getAllFolderPaths(newStructure))
        ELSE @,
     !.lastUpdate = [structure |-> newStructure, error |-> errorMsg]]

handleStructureUpdate(st, newStructure, errorMsg) ==
  [st EXCEPT
     !.structure = newStructure,
     !.error = errorMsg,
     !.isLoading = FALSE,
     !.expandedFolders =
        IF newStructure # Null
        THEN newSet(getAllFolderPaths(newStructure))
        ELSE @,
     !.lastUpdate = [structure |-> newStructure, error |-> errorMsg]]

\* The part of handleDrop before its try block.
dropPrologue(st, view) ==
  IF view = "text"
  THEN handleStructureUpdate(setIsLoading(st, TRUE), Null, Null)
  ELSE setIsLoading(st, TRUE)

\* A catch block that reports the error and keeps the tree.
dropCatchKeepingTree(st, message) ==
  setIsLoading(
    handleStructureUpdate(st, st.structure, ErrorOf(message)), FALSE)

\* A catch block that swallows the error.
dropCatchSilent(st, message) ==
  setIsLoading(handleStructureUpdate(st, Null, Null), FALSE)

\* The catch and finally blocks of handleDrop.
dropCatch(st, message) ==
  setIsLoading(handleStructureUpdate(st, Null, ErrorOf(message)), FALSE)

\* Success branches that leave the error of an earlier drop in place.
dropSuccessKeepingError(st, view, tree) ==
  IF view = "text"
  THEN setIsLoading(handleStructureUpdate(st, tree, st.error), FALSE)
  ELSE setIsLoading(
         handleStructureUpdate(
           setExpandedFolders(st, newSet(getAllFolderPaths(tree))),
           tree, st.error),
         FALSE)

\* The success branches of handleDrop, with the finally block.
dropSuccess(st, view, tree) ==
  IF view = "text"
  THEN setIsLoading(handleStructureUpdate(st, tree, Null), FALSE)
  ELSE setIsLoading(
         handleStructureUpdate(
           setExpandedFolders(st, newSet(getAllFolderPaths(tree))),
           tree, Null),
         FALSE)

\* The try block of handleDrop up to its first await: what it throws, or
\* what it waits for.
dropStart(item) ==
  IF item.kind = "none"
  THEN [tag |-> "throw", message |-> "No files were dropped"]
  ELSE IF item.hasGetAsEntry /\ item.entry = Null
  THEN [tag |-> "throw",
        message |-> "Cannot read properties of null (reading 'isDirectory')"]
  ELSE IF item.hasGetAsEntry /\ item.entry.isDirectory
  THEN [tag |-> "directory", entry |-> item.entry]
  ELSE IF item.kind = "file"
  THEN IF endsWithZip(item.file.name)
       THEN IF exceedsLimit(item.file)
            THEN [tag |-> "throw",
                  message |-> zipFailure(SizeLimitMessage)]
            ELSE [tag |-> "zip", file |-> item.file]
       ELSE [tag |-> "throw",
             message |-> "Only folders and ZIP files are supported"]
  ELSE [tag |-> "throw", message |-> "Unsupported item type"]

\* The loading overlay of App covers the page while isLoading is set.
UIEnabled == ~isLoading

Commit(st) ==
  /\ structure' = st.structure
  /\ error' = st.error
  /\ expandedFolders' = st.expandedFolders
  /\ isLoading' = st.isLoading
  /\ lastUpdate' = st.lastUpdate

Job(i, view, tag) == [item |-> i, view |-> view, tag |-> tag]

\* A drop on the drop target of the current view.
HandleDrop(i) ==
  /\ UIEnabled
  /\ LET start == dropStart(Items[i])
         st == dropPrologue(AppState, viewMode)
     IN  IF start.tag = "throw"
         THEN /\ Commit(dropCatch(st, start.message))
              /\ lastOp' = [op |-> "handleDrop", item |-> i,
                            outcome |-> "failed"]
              /\ UNCHANGED <<jobs, loadAsyncCalls>>
         ELSE /\ BagCardinality(jobs) < MaxJobs
              /\ Commit(st)
              /\ jobs' = jobs (+) SetToBag({Job(i, viewMode, start.tag)})
              /\ loadAsyncCalls' =
                   IF start.tag = "zip" THEN loadAsyncCalls \cup {i}
                   ELSE loadAsyncCalls
              /\ lastOp' = [op |-> "handleDrop", item |-> i,
                            outcome |-> "started"]
  /\ UNCHANGED <<viewMode, builderVars>>

\* The last readEntries callback of a traversal: readDirectoryStructure
\* returns and handleDrop goes on after its await.  The callbacks before
\* it change no state of the application.
DirectoryRead(job) ==
  /\ BagIn(job, jobs)
  /\ job.tag = "directory"
  /\ LET tree == readDirectoryStructure(Items[job.item].entry, <<>>)
     IN  Commit(dropSuccess(AppState, job.view, tree))
  /\ lastOp' = [op |-> "handleDrop", item |-> job.item,
                outcome |-> "succeeded"]
  /\ jobs' = jobs (-) SetToBag({job})
  /\ UNCHANGED <<viewMode, loadAsyncCalls, builderVars>>

\* zip.loadAsync settles: extractZipStructure goes on, then handleDrop.
LoadAsyncSettles(job) ==
  /\ BagIn(job, jobs)
  /\ job.tag = "zip"
  /\ LET r == extractAfterLoad(Items[job.item].file)
     IN  IF r.ok
         THEN /\ Commit(dropSuccess(AppState, job.view, r.value))
              /\ lastOp' = [op |-> "handleDrop", item |-> job.item,
                            outcome |-> "succeeded"]
         ELSE /\ Commit(dropCatch(AppState, r.message))
              /\ lastOp' = [op |-> "handleDrop", item |-> job.item,
                            outcome |-> "failed"]
  /\ jobs' = jobs (-) SetToBag({job})
  /\ UNCHANGED <<viewMode, loadAsyncCalls, builderVars>>

\* A tree view that always draws the children of the root.
RECURSIVE treeViewNodesRootOpen(_, _)
RECURSIVE treeViewChildrenRootOpen(_, _, _)
treeViewChildrenRootOpen(children, level, i) ==
  IF i > Len(children) THEN <<>>
  ELSE treeViewNodesRootOpen(children[i], level)
       \o treeViewChildrenRootOpen(children, level, i + 1)

treeViewNodesRootOpen(node, level) ==
  LET isFolder == node.type = "directory"
      isExpanded == isFolder /\ (level = 0 \/ node.path \in expandedFolders)
      withChildren == isFolder /\ hasChildren(node) /\ Len(node.children) > 0
  IN  <<node>> \o (IF withChildren /\ isExpanded
                   THEN treeViewChildrenRootOpen(node.children, level + 1, 1)
                   ELSE <<>>)

\* The nodes the interactive renderStructure of the folder view draws.
RECURSIVE treeViewNodes(_, _)
RECURSIVE treeViewChildren(_, _, _)
treeViewChildren(children, level, i) ==
  IF i > Len(children) THEN <<>>
  ELSE treeViewNodes(children[i], level)
       \o treeViewChildren(children, level, i + 1)

treeViewNodes(node, level) ==
  LET isFolder == node.type = "directory"
      isExpanded == isFolder /\ node.path \in expandedFolders
      withChildren == isFolder /\ hasChildren(node) /\ Len(node.children) > 0
  IN  <<node>> \o (IF withChildren /\ isExpanded
                   THEN treeViewChildren(node.children, level + 1, 1)
                   ELSE <<>>)

\* The paths whose line calls toggleFolder when clicked.
clickableFolders ==
  LET drawn == treeViewNodes(structure, 0)
  IN  {drawn[k].path : k \in
         {n \in 1..Len(drawn) :
            /\ drawn[n].type = "directory"
            /\ Len(drawn[n].children) > 0}}

\* An updater that only ever adds the path.
toggledAddOnly(prev, path) == prev \cup {path}

\* The updater toggleFolder hands to setExpandedFolders.
toggled(prev, path) ==
  IF path \in prev THEN prev \ {path} ELSE prev \cup {path}

toggleFolder(path) ==
  /\ UIEnabled
  /\ viewMode = "folder"
  /\ structure # Null
  /\ path \in clickableFolders
  /\ expandedFolders' = toggled(expandedFolders, path)
  /\ lastOp' = [op |-> "toggleFolder"]
  /\ UNCHANGED <<viewMode, structure, error, isLoading, jobs,
                 loadAsyncCalls, lastUpdate, builderVars>>

\* A collapse-all that also lets go of the tree.
toggleExpandAllClearing ==
  /\ UIEnabled
  /\ viewMode = "folder"
  /\ structure # Null
  /\ expandedFolders' =
       IF areAllFoldersExpanded THEN {}
       ELSE newSet(getAllFolderPaths(structure))
  /\ structure' = IF areAllFoldersExpanded THEN Null ELSE structure
  /\ lastOp' = [op |-> "toggleExpandAll"]
  /\ UNCHANGED <<viewMode, error, isLoading, jobs,
                 loadAsyncCalls, lastUpdate, builderVars>>

toggleExpandAll ==
  /\ UIEnabled
  /\ viewMode = "folder"
  /\ structure # Null
  /\ expandedFolders' =
       IF areAllFoldersExpanded THEN {}
       ELSE newSet(getAllFolderPaths(structure))
  /\ lastOp' = [op |-> "toggleExpandAll"]
  /\ UNCHANGED <<viewMode, structure, error, isLoading, jobs,
                 loadAsyncCalls, lastUpdate, builderVars>>

setViewMode(mode) ==
  /\ UIEnabled
  /\ mode # viewMode
  /\ viewMode' = mode
  /\ lastOp' = [op |-> "setViewMode"]
  /\ UNCHANGED <<structure, error, expandedFolders, isLoading, jobs,
                 loadAsyncCalls, lastUpdate, builderVars>>

AppInit ==
  /\ viewMode \in {"text", "folder"}
  /\ structure = Null
  /\ error = Null
  /\ expandedFolders = {}
  /\ isLoading = FALSE
  /\ jobs = EmptyBag
  /\ loadAsyncCalls = {}
  /\ lastOp = [op |-> "init"]
  /\ lastUpdate = Null

BuilderOff ==
  /\ bSource = Null
  /\ bTree = Null
  /\ bNext = 0
  /\ bPhase = "off"

Init == AppInit /\ BuilderOff

Next ==
  \/ \E i \in ItemIds : HandleDrop(i)
  \/ \E job \in BagToSet(jobs) : DirectoryRead(job)
  \/ \E job \in BagToSet(jobs) : LoadAsyncSettles(job)
  \/ \E path \in expandedFolders \cup
                 (IF structure = Null THEN {}
                  ELSE newSet(getAllFolderPaths(structure))) :
       toggleFolder(path)
  \/ toggleExpandAll
  \/ \E mode \in {"text", "folder"} : setViewMode(mode)

Spec == Init /\ [][Next]_vars

\* The handleDrop calls that can be waiting: one for each dropped
\* directory and each dropped archive within the size limit, in either
\* view.
JobValues ==
  {Job(i, view, dropStart(Items[i]).tag) :
     i \in {n \in ItemIds : dropStart(Items[n]).tag # "throw"},
     view \in {"text", "folder"}}

\* The step at which the browser calls back for a waiting handleDrop
\* call, the last readEntries callback or the settling of loadAsync:
\* DirectoryRead and LoadAsyncSettles are the only steps that take a call
\* out of jobs.
CallbackFires(job) ==
  /\ BagIn(job, jobs)
  /\ jobs' = jobs (-) SetToBag({job})

\* The browser eventually calls every pending readEntries callback and
\* settles every pending loadAsync promise.
FairSpec ==
  /\ Spec
  /\ \A job \in JobValues : WF_jobs(CallbackFires(job))

(***************************************************************************)
(* The builders on their own, over bounded families of archives and        *)
(* directory handles: the archive walk entry by entry, the directory       *)
(* traversal as one step.                                                  *)
(***************************************************************************)

Names == {<<"a">>, <<"b">>}

\* The most segments of a generated entry path.
MaxDepth == 2

\* The most entries of a generated archive.
MaxEntries == 2

RECURSIVE joinSlash(_)
joinSlash(segments) ==
  IF Len(segments) = 1 THEN segments[1]
  ELSE segments[1] \o <<"/">> \o joinSlash(Tail(segments))

SegmentPaths == UNION {[1..d -> Names] : d \in 1..MaxDepth}

\* Entry names as the decoder reports them: a directory entry ends with
\* a slash.  Two degenerate names are added: a lone slash and a doubled
\* separator.
RelativePaths ==
  {joinSlash(sp) : sp \in SegmentPaths}
    \cup {joinSlash(sp) \o <<"/">> : sp \in SegmentPaths}
    \cup {<<"/">>, <<"a", "/", "/", "b">>}

\* Sequences of at most n different members of S.
DistinctSeqs(S, n) ==
  UNION {{q \in [1..k -> S] : \A x, y \in 1..k : x # y => q[x] # q[y]} :
           k \in 0..n}

Archives ==
  {ZipFile(XZip, 1024, "", paths) :
     paths \in DistinctSeqs(RelativePaths, MaxEntries)}
    \cup {MergeArchive}

\* Listings: sequences of entries with different names.
Listings(S) ==
  {q \in DistinctSeqs(S, Cardinality(Names)) :
     \A x, y \in DOMAIN q : x # y => q[x].name # q[y].name}

LeafEntries ==
  {FileEntry(n) : n \in Names}
    \cup {DirEntry(n, r, <<>>) : n \in Names, r \in BOOLEAN}

InnerEntries ==
  {DirEntry(n, r, <<batch>>) :
     n \in Names, r \in BOOLEAN, batch \in Listings(LeafEntries)}

\* Root handles named r; the listing arrives in one batch or, when it has
\* two entries, also in two.
DirectoryHandles ==
  LET listings == Listings(InnerEntries \cup {FileEntry(n) : n \in Names})
  IN  {DirEntry(<<"r">>, TRUE, <<batch>>) : batch \in listings}
        \cup {DirEntry(<<"r">>, TRUE,
                       << <<batch[1]>>, Tail(batch) >>) :
                batch \in {q \in listings : Len(q) > 1}}
        \cup {ProjEntry, PartialEntry, WideEntry}

BuilderInit ==
  /\ AppInit
  /\ viewMode = "text"
  /\ \/ /\ bSource \in Archives
        /\ bTree = zipRoot(bSource)
        /\ bNext = 1
        /\ bPhase = "walking"
     \/ /\ bSource \in DirectoryHandles
        /\ bTree = Null
        /\ bNext = 0
        /\ bPhase = "listing"

\* One round of the forEach over the archive's entries.
WalkEntry ==
  /\ bPhase = "walking"
  /\ bNext <= Len(bSource.files)
  /\ LET r == addEntry(bTree, bSource.files[bNext])
     IN  /\ bTree' = r.root
         /\ bPhase' = IF r.threw THEN "threw" ELSE "walking"
         /\ bNext' = bNext + 1
  /\ UNCHANGED <<bSource, appVars>>

\* sortStructure(root); return root.
SortAndReturn ==
  /\ bPhase = "walking"
  /\ bNext > Len(bSource.files)
  /\ bTree' = sortStructure(bTree)
  /\ bPhase' = "returned"
  /\ UNCHANGED <<bSource, bNext, appVars>>

\* readDirectoryStructure(entry) returns.
ReadDirectory ==
  /\ bPhase = "listing"
  /\ bTree' = readDirectoryStructure(bSource, <<>>)
  /\ bPhase' = "returned"
  /\ UNCHANGED <<bSource, bNext, appVars>>

BuilderNext == WalkEntry \/ SortAndReturn \/ ReadDirectory

BuilderSpec == BuilderInit /\ [][BuilderNext]_vars

(***************************************************************************)
(* Properties                                                              *)
(***************************************************************************)

\* The places of a tree.
RECURSIVE Locs(_)
Locs(node) ==
  {<<>>} \cup
    (IF hasChildren(node)
     THEN UNION {{<<k>> \o l : l \in Locs(node.children[k])} :
                   k \in 1..Len(node.children)}
     ELSE {})

\* The names on the way from the root to a place.
RECURSIVE SegmentsAt(_, _)
SegmentsAt(node, loc) ==
  IF loc = <<>> THEN <<>>
  ELSE <<node.children[Head(loc)].name>>
       \o SegmentsAt(node.children[Head(loc)], Tail(loc))

\* The nodes of a tree in depth-first pre-order, each with its depth and
\* whether it is the last child of its parent.
RECURSIVE PreOrder(_, _, _)
RECURSIVE PreOrderChildren(_, _, _)
PreOrderChildren(children, depth, i) ==
  IF i > Len(children) THEN <<>>
  ELSE PreOrder(children[i], depth, i = Len(children))
       \o PreOrderChildren(children, depth, i + 1)

PreOrder(node, depth, isLast) ==
  << [node |-> node, depth |-> depth, isLast |-> isLast] >>
    \o (IF hasChildren(node)
        THEN PreOrderChildren(node.children, depth + 1, 1)
        ELSE <<>>)

IsArchive(source) == "files" \in DOMAIN source

ReturnedArchiveTree == bPhase = "returned" /\ IsArchive(bSource)

DropEnded(outcome) ==
  lastOp.op = "handleDrop" /\ lastOp.outcome = outcome

ChildrenOrdered(children) ==
  \A k \in 1..(Len(children) - 1) :
    LET a == children[k]
        b == children[k + 1]
    IN  /\ a.type = "file" => b.type = "file"
        /\ a.type = b.type => localeCompare(a.name, b.name) <= 0

\* C1: in every tree a builder returns, at every depth, a directory's
\* children have all directories before all files, and within each kind
\* the names are in non-decreasing order.
C1_CanonicalOrdering ==
  bPhase = "returned" =>
    \A loc \in Locs(bTree) :
      hasChildren(NodeAt(bTree, loc)) =>
        ChildrenOrdered(NodeAt(bTree, loc).children)

\* A returned tree with a directory below the root that was listed file
\* first and now holds a directory followed by a file.
C1_Witness ==
  /\ bPhase = "returned"
  /\ \E loc \in Locs(bTree) :
       /\ Len(loc) >= 1
       /\ hasChildren(NodeAt(bTree, loc))
       /\ Len(NodeAt(bTree, loc).children) >= 2
       /\ NodeAt(bTree, loc).children[1].type = "directory"
       /\ NodeAt(bTree, loc).children[2].type = "file"

ProjIngested ==
  /\ DropEnded("succeeded")
  /\ Items[lastOp.item].kind = "file"
  /\ Items[lastOp.item].hasGetAsEntry
  /\ Items[lastOp.item].entry = ProjEntry

ProjLinesFilesFirst ==
  << <<"p", "r", "o", "j", "/">>,
     <<" ", " ", " ", " ", "U+251C", "U+2500", "U+2500", " ", "R", "E",
       "A", "D", "M", "E", ".", "m", "d">>,
     <<" ", " ", " ", " ", "U+2514", "U+2500", "U+2500", " ", "s", "r",
       "c", "/">>,
     <<" ", " ", " ", " ", " ", " ", " ", " ", "U+251C", "U+2500",
       "U+2500", " ", "i", "n", "d", "e", "x", ".", "j", "s">>,
     <<" ", " ", " ", " ", " ", " ", " ", " ", "U+2514", "U+2500",
       "U+2500", " ", "u", "t", "i", "l", "s", "/">>,
     <<" ", " ", " ", " ", " ", " ", " ", " ", " ", " ", " ", " ",
       "U+2514", "U+2500", "U+2500", " ", "h", "e", "l", "p", "e", "r",
       "s", ".", "j", "s">> >>

ProjLinesDirectoriesFirst ==
  << <<"p", "r", "o", "j", "/">>,
     <<" ", " ", " ", " ", "U+251C", "U+2500", "U+2500", " ", "s", "r",
       "c", "/">>,
     <<" ", " ", " ", " ", "U+2502", " ", " ", " ", "U+251C", "U+2500",
       "U+2500", " ", "u", "t", "i", "l", "s", "/">>,
     <<" ", " ", " ", " ", "U+2502", " ", " ", " ", "U+2502", " ", " ",
       " ", "U+2514", "U+2500", "U+2500", " ", "h", "e", "l", "p", "e",
       "r", "s", ".", "j", "s">>,
     <<" ", " ", " ", " ", "U+2502", " ", " ", " ", "U+2514", "U+2500",
       "U+2500", " ", "i", "n", "d", "e", "x", ".", "j", "s">>,
     <<" ", " ", " ", " ", "U+2514", "U+2500", "U+2500", " ", "R", "E",
       "A", "D", "M", "E", ".", "m", "d">> >>

\* C2 as stated: ingesting proj/{README.md, src/{index.js,
\* utils/helpers.js}} renders as proj/, README.md, src/, index.js, utils/,
\* helpers.js, in this order.
C2_ProjExampleAsStated ==
  ProjIngested => renderText(structure) = ProjLinesFilesFirst

\* C2, amended: ingesting proj/{README.md, src/{index.js,
\* utils/helpers.js}} renders as proj/, src/, utils/, helpers.js, index.js,
\* README.md, each directory before the files beside it.
C2_ProjExample ==
  ProjIngested => renderText(structure) = ProjLinesDirectoriesFirst

C2_Witness == ProjIngested /\ Len(renderText(structure)) = 6

\* The nodes of a tree, with repetitions, as the sequence of their records.
NodesOf(tree) ==
  LET po == PreOrder(tree, 0, TRUE)
  IN  [k \in 1..Len(po) |-> po[k].node]

\* C3: in every tree extractZipStructure returns, no directory has two
\* children with the same name and no two nodes have the same path.
C3_PathUniqueness ==
  ReturnedArchiveTree =>
    /\ \A loc \in Locs(bTree) :
         hasChildren(NodeAt(bTree, loc)) =>
           \A x, y \in 1..Len(NodeAt(bTree, loc).children) :
             x # y => NodeAt(bTree, loc).children[x].name
                        # NodeAt(bTree, loc).children[y].name
    /\ \A l1, l2 \in Locs(bTree) :
         l1 # l2 => NodeAt(bTree, l1).path # NodeAt(bTree, l2).path

\* A returned archive tree for two entries that name the same first
\* segment, one as a file and one as a directory.
C3_Witness ==
  /\ ReturnedArchiveTree
  /\ \E x, y \in 1..Len(bSource.files) :
       /\ x # y
       /\ ~bSource.files[x].dir
       /\ bSource.files[y].dir
       /\ entryParts(bSource.files[x]) = entryParts(bSource.files[y])
       /\ entryParts(bSource.files[x]) # <<>>

\* The segment sequences that are an entry path or a prefix of one, the
\* empty sequence (the root) included.
PrefixClosure(files) ==
  {<<>>} \cup
    UNION {{SubSeq(entryParts(files[k]), 1, n) :
              n \in 1..Len(entryParts(files[k]))} : k \in 1..Len(files)}

\* C4: the tree extractZipStructure returns has exactly one node for each
\* distinct segment sequence that is an entry path or a prefix of one, and
\* walking any of its entries once more adds no node.
C4_MergeIdempotence ==
  ReturnedArchiveTree =>
    /\ {SegmentsAt(bTree, loc) : loc \in Locs(bTree)}
         = PrefixClosure(bSource.files)
    /\ Cardinality(Locs(bTree)) = Cardinality(PrefixClosure(bSource.files))
    /\ \A k \in 1..Len(bSource.files) :
         addEntry(bTree, bSource.files[k]) =
           [root |-> bTree, threw |-> FALSE]

\* The archive a/, a/b.t, a/c/, a/c/d.t has been built: five nodes.
C4_Witness ==
  /\ ReturnedArchiveTree
  /\ bSource = MergeArchive
  /\ countItems(bTree) = 5
  /\ Len(bTree.children) = 1

\* The file a drop item carries, Null when it carries none.
ItemFile(i) == IF "file" \in DOMAIN Items[i] THEN Items[i].file ELSE Null

OversizeItems ==
  {i \in ItemIds :
     /\ Items[i].kind = "file"
     /\ "file" \in DOMAIN Items[i]
     /\ endsWithZip(Items[i].file.name)
     /\ Items[i].file.size > 52428800}

\* C5: an archive of more than 50 MiB is rejected with the size-limit
\* failure, and zip.loadAsync is never called for it.
C5_SizeCeiling ==
  /\ loadAsyncCalls \cap OversizeItems = {}
  /\ \A job \in BagToSet(jobs) : job.item \notin OversizeItems
  /\ (lastOp.op = "handleDrop" /\ lastOp.item \in OversizeItems) =>
       /\ lastOp.outcome = "failed"
       /\ structure = Null
       /\ error = [message |->
                     "Failed to process ZIP: File exceeds 50MB limit"]

\* An oversize archive has just been dropped, after the decoder has run
\* for an archive of exactly 50 MiB.
C5_Witness ==
  /\ lastOp.op = "handleDrop"
  /\ lastOp.item \in OversizeItems
  /\ \E i \in loadAsyncCalls : Items[i].file.size = 52428800

\* The directory paths of a tree.
DirectoryPaths(tree) ==
  {NodeAt(tree, loc).path :
     loc \in {l \in Locs(tree) : NodeAt(tree, l).type = "directory"}}

\* C6: right after a successful ingestion the expansion state is exactly
\* the set of directory paths of the new tree, and areAllFoldersExpanded
\* is true.
C6_AllExpandedAfterIngestion ==
  DropEnded("succeeded") =>
    /\ structure # Null
    /\ expandedFolders = DirectoryPaths(structure)
    /\ areAllFoldersExpanded

\* An archive has been ingested while another ingestion, started when the
\* proj tree was shown, is still waiting.
C6_Witness ==
  /\ DropEnded("succeeded")
  /\ IsArchive(ItemFile(lastOp.item))
  /\ Cardinality(expandedFolders) = 3
  /\ jobs # EmptyBag

\* C7: right after a failed drop the application holds no tree and a
\* non-empty error message, and the failed drop passed no tree to
\* onStructureUpdate.
C7_FailureLeavesNoTree ==
  DropEnded("failed") =>
    /\ structure = Null
    /\ error # Null
    /\ error.message # ""
    /\ lastUpdate.structure = Null
    /\ lastUpdate.error = error

\* The archive with a file at a and an entry below a has failed in the
\* middle of its walk, in the folder view.
C7_Witness ==
  /\ DropEnded("failed")
  /\ ItemFile(lastOp.item) = ConflictArchive
  /\ viewMode = "folder"

FileLocs(tree) == {l \in Locs(tree) : NodeAt(tree, l).type = "file"}

\* C8: in every tree extractZipStructure returns, the keys of root.fileMap
\* are exactly the paths of the file nodes, and each file node's path maps
\* to the node's own zipEntry.
C8_FileIndex ==
  ReturnedArchiveTree =>
    /\ DOMAIN bTree.fileMap
         = {NodeAt(bTree, l).path : l \in FileLocs(bTree)}
    /\ \A l \in FileLocs(bTree) :
         bTree.fileMap[NodeAt(bTree, l).path] = NodeAt(bTree, l).zipEntry

\* A returned archive tree with a file below a directory and an entry
\* that names a directory and so has no key.
C8_Witness ==
  /\ ReturnedArchiveTree
  /\ \E l \in FileLocs(bTree) : Len(l) >= 2
  /\ \E k \in 1..Len(bSource.files) : bSource.files[k].dir
  /\ Cardinality(DOMAIN bTree.fileMap) < Cardinality(Locs(bTree)) - 1

\* The label a line ends with: the name, and a slash for a directory.
Label(node) ==
  node.name \o (IF node.type = "directory" THEN <<"/">> ELSE <<>>)

EndsWith(line, suffix) ==
  /\ Len(line) >= Len(suffix)
  /\ SubSeq(line, Len(line) - Len(suffix) + 1, Len(line)) = suffix

\* C9: the text view renders one line per node, in depth-first pre-order,
\* whatever the expansion state; the number of lines is countItems(tree).
C9_OneLinePerNode ==
  structure # Null =>
    LET lines == renderText(structure)
        nodes == NodesOf(structure)
    IN  /\ Len(lines) = Len(nodes)
        /\ Len(lines) = countItems(structure)
        /\ \A k \in 1..Len(nodes) : EndsWith(lines[k], Label(nodes[k]))

\* A tree is shown in the text view while one of its directories that has
\* children is collapsed.
C9_Witness ==
  /\ structure # Null
  /\ viewMode = "text"
  /\ \E loc \in Locs(structure) :
       /\ loc # <<>>
       /\ hasChildren(NodeAt(structure, loc))
       /\ Len(NodeAt(structure, loc).children) > 0
       /\ NodeAt(structure, loc).path \notin expandedFolders

\* The four characters before the label of a line.
ConnectorBefore(line, node) ==
  LET slash == IF line[Len(line)] = "/" THEN 1 ELSE 0
      labelStart == Len(line) - slash - Len(node.name) + 1
  IN  SubSeq(line, labelStart - 4, labelStart - 1)

\* C10: the line of every non-root node carries the last-child connector
\* if the node is the last child of its parent and the other connector
\* otherwise, and ends with a slash exactly if the node is a directory.
C10_ConnectorAndSlash ==
  bPhase = "returned" =>
    LET lines == renderText(bTree)
        po == PreOrder(bTree, 0, TRUE)
    IN  /\ Len(lines) = Len(po)
        /\ \A k \in 2..Len(po) :
             /\ ConnectorBefore(lines[k], po[k].node) =
                  (IF po[k].isLast
                   THEN <<"U+2514", "U+2500", "U+2500", " ">>
                   ELSE <<"U+251C", "U+2500", "U+2500", " ">>)
             /\ (lines[k][Len(lines[k])] = "/")
                  <=> (po[k].node.type = "directory")

\* A returned tree with a directory that is not a last child and has a
\* child, and a file that is a last child.
C10_Witness ==
  /\ bPhase = "returned"
  /\ \E k \in 2..Len(PreOrder(bTree, 0, TRUE)) :
       LET e == PreOrder(bTree, 0, TRUE)[k]
       IN  /\ ~e.isLast
           /\ e.node.type = "directory"
           /\ Len(e.node.children) > 0
  /\ \E k \in 2..Len(PreOrder(bTree, 0, TRUE)) :
       LET e == PreOrder(bTree, 0, TRUE)[k]
       IN  e.isLast /\ e.node.type = "file"

\* The places of a tree in depth-first pre-order.
RECURSIVE PreOrderLocs(_, _)
RECURSIVE PreOrderLocsOfChildren(_, _, _)
PreOrderLocsOfChildren(children, loc, i) ==
  IF i > Len(children) THEN <<>>
  ELSE PreOrderLocs(children[i], Append(loc, i))
       \o PreOrderLocsOfChildren(children, loc, i + 1)

PreOrderLocs(node, loc) ==
  <<loc>> \o (IF hasChildren(node)
              THEN PreOrderLocsOfChildren(node.children, loc, 1)
              ELSE <<>>)

\* Whether the node at a place below the root is the last child of its
\* parent.
IsLastAt(tree, loc) ==
  loc[Len(loc)] =
    Len(NodeAt(tree, SubSeq(loc, 1, Len(loc) - 1)).children)

\* One unit for each ancestor below the root of the node at a place, from
\* the ancestor at depth j on: four spaces for an ancestor that is a last
\* child, a bar and three spaces for one that is not.
RECURSIVE AncestorUnits(_, _, _)
AncestorUnits(tree, loc, j) ==
  IF j >= Len(loc) THEN <<>>
  ELSE (IF IsLastAt(tree, SubSeq(loc, 1, j))
        THEN <<" ", " ", " ", " ">>
        ELSE <<"U+2502", " ", " ", " ">>)
       \o AncestorUnits(tree, loc, j + 1)

\* C11: the line of a node at depth d >= 1 starts with d units of four
\* characters followed by the connector: four spaces for the root, then
\* for each further ancestor four spaces if it is a last child and a bar
\* with three spaces otherwise; the width is 4 * d whatever the names are.
C11_PrefixUnits ==
  bPhase = "returned" =>
    LET lines == renderText(bTree)
        locs == PreOrderLocs(bTree, <<>>)
    IN  /\ Len(lines) = Len(locs)
        /\ \A k \in 2..Len(locs) :
             LET d == Len(locs[k])
                 units == <<" ", " ", " ", " ">>
                            \o AncestorUnits(bTree, locs[k], 1)
             IN  /\ Len(units) = 4 * d
                 /\ Len(lines[k]) > 4 * d + 4
                 /\ SubSeq(lines[k], 1, 4 * d) = units
                 /\ SubSeq(lines[k], 4 * d + 1, 4 * d + 4) \in
                      {<<"U+2514", "U+2500", "U+2500", " ">>,
                       <<"U+251C", "U+2500", "U+2500", " ">>}

\* A returned tree with a node below a directory that is not a last child
\* and a node below a directory that is one, under names of different
\* lengths.
C11_Witness ==
  /\ bPhase = "returned"
  /\ \E l1, l2 \in Locs(bTree) :
       /\ Len(l1) >= 2 /\ ~IsLastAt(bTree, SubSeq(l1, 1, 1))
       /\ Len(l2) >= 2 /\ IsLastAt(bTree, SubSeq(l2, 1, 1))
       /\ Len(NodeAt(bTree, l1).name) # Len(NodeAt(bTree, l2).name)

\* Reading a rendering back: the position of the first connector
\* character of a line, from position i on (0 if there is none).
RECURSIVE ConnectorAt(_, _)
ConnectorAt(line, i) ==
  IF i > Len(line) THEN 0
  ELSE IF line[i] \in {"U+2514", "U+251C"} THEN i
  ELSE ConnectorAt(line, i + 1)

\* The depth a line shows: the number of four-character units before its
\* connector; the first line is the root's.
ParsedDepth(lines, k) ==
  IF k = 1 THEN 0 ELSE (ConnectorAt(lines[k], 1) - 1) \div 4

ParsedIsLast(lines, k) ==
  k = 1 \/ lines[k][ConnectorAt(lines[k], 1)] = "U+2514"

\* The parent a line shows: the nearest earlier line that is one unit
\* less deep (0 for the root's line).
RECURSIVE ParsedParent(_, _, _)
ParsedParent(lines, k, j) ==
  IF j < 1 THEN 0
  ELSE IF ParsedDepth(lines, j) = ParsedDepth(lines, k) - 1 THEN j
  ELSE ParsedParent(lines, k, j - 1)

Parse(lines) ==
  [k \in 1..Len(lines) |->
     [depth |-> ParsedDepth(lines, k),
      parent |-> ParsedParent(lines, k, k - 1),
      isLast |-> ParsedIsLast(lines, k)]]

\* The same three facts taken from the tree, in depth-first pre-order.
ShapeOf(tree) ==
  LET locs == PreOrderLocs(tree, <<>>)
  IN  [k \in 1..Len(locs) |->
         [depth |-> Len(locs[k]),
          parent |-> IF k = 1 THEN 0
                     ELSE CHOOSE j \in 1..Len(locs) :
                            locs[j] = SubSeq(locs[k], 1, Len(locs[k]) - 1),
          isLast |-> k = 1 \/ IsLastAt(tree, locs[k])]]

\* C12: reading the rendered lines back by prefix width and connector
\* gives, for every node, the depth, the parent and the last-child flag it
\* has in the tree; so two trees that differ in one of these never render
\* to the same lines.
C12_RoundTrip ==
  bPhase = "returned" => Parse(renderText(bTree)) = ShapeOf(bTree)

\* A returned tree with two directories below the root that each have a
\* child, so that nodes of the same depth have different parents.
C12_Witness ==
  /\ bPhase = "returned"
  /\ \E l1, l2 \in Locs(bTree) :
       /\ Len(l1) = 2 /\ Len(l2) = 2
       /\ l1[1] # l2[1]
  /\ \E l \in Locs(bTree) : Len(l) >= 1 /\ ~IsLastAt(bTree, l)

\* Every directory of the tree that has children is expanded.
AllBranchesExpanded(tree) ==
  \A loc \in Locs(tree) :
    LET node == NodeAt(tree, loc)
    IN  (hasChildren(node) /\ Len(node.children) > 0)
          => node.path \in expandedFolders

\* The icon-annotated and the plain output have the same number of lines,
\* and each icon-annotated line is the plain line with an icon and a space
\* put before the name.
SameLinesButLabels(tree) ==
  LET plain == renderText(tree)
      visual == renderVisual(tree)
      nodes == NodesOf(tree)
  IN  /\ Len(visual) = Len(plain)
      /\ \A k \in 1..Len(plain) :
           LET before == SubSeq(plain[k], 1,
                                Len(plain[k]) - Len(Label(nodes[k])))
           IN  \E icon \in {ClosedFolderIcon, OpenFolderIcon, FileIcon} :
                 visual[k] = before \o <<icon, " ">> \o Label(nodes[k])

\* C13 as stated: in every expansion state the icon-annotated output has
\* the lines of the plain output, with the same prefix and connector, and
\* differs only in the label.
C13_SameLinesAsStated ==
  structure # Null => SameLinesButLabels(structure)

\* C13: when every directory that has children is expanded, the
\* icon-annotated output has the lines of the plain output, with the same
\* prefix and connector, and differs only in the label.
C13_SameLines ==
  (structure # Null /\ AllBranchesExpanded(structure))
    => SameLinesButLabels(structure)

\* The folder view shows a tree three levels deep with every directory
\* expanded, after a click on a folder.
C13_Witness ==
  /\ structure # Null
  /\ viewMode = "folder"
  /\ lastOp.op = "toggleFolder"
  /\ AllBranchesExpanded(structure)
  /\ \E loc \in Locs(structure) : Len(loc) >= 3

\* C14: in every tree a builder returns, a node whose parent has a
\* non-empty path has the path parent path + "/" + name, and a node whose
\* parent has the empty path has exactly its name as path, with no
\* leading "/".
C14_PathNormalizer ==
  bPhase = "returned" =>
    \A loc \in Locs(bTree) :
      loc # <<>> =>
        LET node == NodeAt(bTree, loc)
            parent == NodeAt(bTree, SubSeq(loc, 1, Len(loc) - 1))
        IN  node.path =
              (IF parent.path # <<>>
               THEN parent.path \o <<"/">> \o node.name
               ELSE node.name)

\* C15: the root of every tree a builder returns is a directory whose
\* path is the empty string.
C15_RootPathEmpty ==
  bPhase = "returned" =>
    /\ bTree.type = "directory"
    /\ bTree.path = <<>>

RECURSIVE AllBatchesListed(_, _)
AllBatchesListed(entry, node) ==
  \A b \in 1..Len(entry.batches) :
    \A k \in 1..Len(entry.batches[b]) :
      LET e == entry.batches[b][k]
      IN  \E c \in 1..Len(node.children) :
            /\ node.children[c].name = e.name
            /\ (e.isDirectory /\ e.readable)
                 => AllBatchesListed(e, node.children[c])

\* C17: in the tree readDirectoryStructure returns, every entry of every
\* listing batch of a directory is a child of that directory's node.
C17_AllBatchesDrained ==
  (bPhase = "returned" /\ ~IsArchive(bSource))
    => AllBatchesListed(bSource, bTree)

\* Some directory of a handle cannot be listed.
RECURSIVE HasListingFailure(_)
HasListingFailure(entry) ==
  /\ entry.isDirectory
  /\ \/ ~entry.readable
     \/ \E b \in 1..Len(entry.batches) :
          \E k \in 1..Len(entry.batches[b]) :
            HasListingFailure(entry.batches[b][k])

\* The node of a directory whose listing fails has no children; the node
\* of every other directory has a child for each of its entries.
RECURSIVE BuiltButFailures(_, _)
BuiltButFailures(entry, node) ==
  IF ~entry.readable
  THEN node.type = "directory" /\ node.children = <<>>
  ELSE \A b \in 1..Len(entry.batches) :
         \A k \in 1..Len(entry.batches[b]) :
           LET e == entry.batches[b][k]
           IN  \E c \in 1..Len(node.children) :
                 /\ node.children[c].name = e.name
                 /\ e.isDirectory => BuiltButFailures(e, node.children[c])

\* C18: when the drop of a directory in which some listing fails has
\* ended, it has ended as a success with a tree and no error, the
\* directories whose listing failed have no children and every other
\* directory has all its entries.
C18_ListingFailureDegrades ==
  \A i \in ItemIds :
    (/\ lastOp.op = "handleDrop"
     /\ lastOp.item = i
     /\ lastOp.outcome \in {"succeeded", "failed"}
     /\ Items[i].kind = "file"
     /\ Items[i].hasGetAsEntry
     /\ HasListingFailure(Items[i].entry))
      => /\ lastOp.outcome = "succeeded"
         /\ structure # Null
         /\ error = Null
         /\ BuiltButFailures(Items[i].entry, structure)

\* C19: while a drop is being processed the application holds no tree, in
\* the text view and in the folder view, and it holds none after a drop
\* has failed.
C19_NoTreeFromStart ==
  /\ jobs # EmptyBag => structure = Null
  /\ DropEnded("failed") => structure = Null

\* C20: at most one drop is being processed at any time.
C20_SingleIngestion ==
  BagCardinality(jobs) <= 1

\* C21: a step of toggleFolder, toggleExpandAll or a change of view leaves
\* the tree as it is, and the tree the application holds is always the
\* one the last onStructureUpdate call delivered: names, kinds, paths,
\* order of children, file handles and file index included.  The text,
\* icon and interactive renderers are functions of the tree and the
\* expansion state and write neither.
C21_TreeFrame ==
  /\ [](structure # Null => structure = lastUpdate.structure)
  /\ [][(lastOp'.op \in {"toggleFolder", "toggleExpandAll", "setViewMode"})
          => structure' = structure]_vars

\* An archive tree with its file index is held after a click has
\* collapsed one of its folders.
C21_Witness ==
  /\ structure # Null
  /\ "fileMap" \in DOMAIN structure
  /\ DOMAIN structure.fileMap # {}
  /\ lastOp.op = "toggleFolder"
  /\ ~AllBranchesExpanded(structure)

\* The place of the node with the given segments in a tree.
LocOf(tree, segments) ==
  CHOOSE loc \in Locs(tree) : SegmentsAt(tree, loc) = segments

\* The node at the path of entry k is a directory exactly if the entry's
\* directory flag is set.
KindFollowsFlag(tree, files, k) ==
  LET parts == entryParts(files[k])
  IN  parts # <<>> =>
        /\ \E loc \in Locs(tree) : SegmentsAt(tree, loc) = parts
        /\ (NodeAt(tree, LocOf(tree, parts)).type = "directory")
             <=> files[k].dir

\* a is b, or lies above b.
IsPrefix(a, b) == Len(a) <= Len(b) /\ SubSeq(b, 1, Len(a)) = a

\* Another entry has the segments of entry k with the other flag, or
\* lies below entry k although entry k is a file.
KindConflict(files, k) ==
  \E j \in 1..Len(files) :
    /\ j # k
    /\ \/ /\ entryParts(files[j]) = entryParts(files[k])
          /\ files[j].dir # files[k].dir
       \/ /\ ~files[k].dir
          /\ IsPrefix(entryParts(files[k]), entryParts(files[j]))
          /\ entryParts(files[j]) # entryParts(files[k])

\* C22 as stated: in the tree extractZipStructure returns, the node at the
\* path of every entry is a directory exactly if the entry's directory
\* flag is set, whatever the other entries are.
C22_KindFromFlagAsStated ==
  ReturnedArchiveTree =>
    \A k \in 1..Len(bSource.files) : KindFollowsFlag(bTree, bSource.files, k)

\* C22: in the tree extractZipStructure returns, the node at the path of
\* an entry is a directory exactly if the entry's directory flag is set,
\* for every entry that no other entry contradicts: none has the same
\* segments with the other flag, and none lies below a file entry.
C22_KindFromFlag ==
  ReturnedArchiveTree =>
    \A k \in 1..Len(bSource.files) :
      ~KindConflict(bSource.files, k)
        => KindFollowsFlag(bTree, bSource.files, k)

\* A returned archive tree with an entry flagged as a directory whose
\* node has no children, so that only the flag gives its kind, and a file
\* entry more than one segment deep.
C22_Witness ==
  /\ ReturnedArchiveTree
  /\ \E k \in 1..Len(bSource.files) :
       /\ bSource.files[k].dir
       /\ entryParts(bSource.files[k]) # <<>>
       /\ NodeAt(bTree, LocOf(bTree, entryParts(bSource.files[k]))).type
            = "directory"
       /\ NodeAt(bTree, LocOf(bTree, entryParts(bSource.files[k]))).children
            = <<>>
  /\ \E j \in 1..Len(bSource.files) :
       /\ ~bSource.files[j].dir
       /\ Len(entryParts(bSource.files[j])) >= 2
       /\ NodeAt(bTree, LocOf(bTree, entryParts(bSource.files[j]))).type
            = "file"

\* The places whose proper ancestors, the root included, all have their
\* path in the expansion state.
VisibleLocs(tree) ==
  {loc \in Locs(tree) :
     \A n \in 0..(Len(loc) - 1) :
       NodeAt(tree, SubSeq(loc, 1, n)).path \in expandedFolders}

\* C23: the interactive tree view draws the root, and draws a node below
\* the root exactly if the paths of all its proper ancestors are in the
\* expansion state, in depth-first pre-order; so a collapsed directory is
\* drawn without any of its descendants.
C23_InteractiveVisibility ==
  structure # Null =>
    LET locs == SelectSeq(PreOrderLocs(structure, <<>>),
                          LAMBDA loc : loc \in VisibleLocs(structure))
        drawn == treeViewNodes(structure, 0)
    IN  /\ Len(drawn) >= 1
        /\ drawn[1] = structure
        /\ drawn = [k \in 1..Len(locs) |-> NodeAt(structure, locs[k])]

\* The folder view shows a tree whose root is expanded and in which a
\* directory below the root is collapsed and hides its children.
C23_Witness ==
  /\ structure # Null
  /\ viewMode = "folder"
  /\ structure.path \in expandedFolders
  /\ \E loc \in Locs(structure) :
       /\ Len(loc) = 1
       /\ hasChildren(NodeAt(structure, loc))
       /\ Len(NodeAt(structure, loc).children) > 0
       /\ NodeAt(structure, loc).path \notin expandedFolders
  /\ Len(treeViewNodes(structure, 0)) < countItems(structure)

\* The set differs from prev in the membership of the path and in
\* nothing else, and toggling the path once more gives prev back.
FlipsOnly(prev, path) ==
  LET once == toggled(prev, path)
  IN  /\ (path \in once) <=> (path \notin prev)
      /\ once \ {path} = prev \ {path}
      /\ toggled(once, path) = prev

\* C24: toggleFolder(p) flips the membership of p in the expansion state
\* and leaves every other path as it is; doing it twice in a row gives the
\* expansion state it started from.  Checked for every step of
\* toggleFolder and, in every reachable state, for every directory path
\* of the tree and every path in the expansion state.
C24_ToggleFlips ==
  /\ [](structure # Null =>
          \A p \in expandedFolders \cup newSet(getAllFolderPaths(structure)) :
            FlipsOnly(expandedFolders, p))
  /\ [][lastOp'.op = "toggleFolder" =>
          \E p \in clickableFolders :
            /\ expandedFolders' = toggled(expandedFolders, p)
            /\ (p \in expandedFolders') <=> (p \notin expandedFolders)
            /\ expandedFolders' \ {p} = expandedFolders \ {p}]_vars

\* A click has just collapsed a folder below the root while the root and
\* another directory stay expanded.
C24_Witness ==
  /\ lastOp.op = "toggleFolder"
  /\ structure # Null
  /\ structure.path \in expandedFolders
  /\ \E p \in newSet(getAllFolderPaths(structure)) : p \notin expandedFolders
  /\ Cardinality(expandedFolders) >= 2

\* C25: a toggleExpandAll step on a loaded tree empties the expansion
\* state if every directory path of the tree was a member, and otherwise
\* makes it exactly the set of all directory paths of the tree, the root's
\* included; after the step areAllFoldersExpanded is true exactly if it
\* was false before.
C25_ToggleExpandAll ==
  [][lastOp'.op = "toggleExpandAll" =>
       LET all == newSet(getAllFolderPaths(structure))
       IN  /\ structure # Null
           /\ structure.path \in all
           /\ all \subseteq expandedFolders => expandedFolders' = {}
           /\ ~(all \subseteq expandedFolders) => expandedFolders' = all
           /\ areAllFoldersExpanded' <=> ~areAllFoldersExpanded]_vars

\* The expand-all button has just expanded every directory of a tree
\* with at least three directories.
C25_Witness ==
  /\ lastOp.op = "toggleExpandAll"
  /\ structure # Null
  /\ areAllFoldersExpanded
  /\ Cardinality(expandedFolders) >= 3

\* The expansion state holds only directory paths of the tree held.
ExpansionWithinTree ==
  structure # Null =>
    expandedFolders \subseteq newSet(getAllFolderPaths(structure))

\* C26 as stated: the expansion state holds only directory paths of the
\* tree held, and it is empty when no tree is held.
C26_ExpansionWithinTreeAsStated ==
  /\ ExpansionWithinTree
  /\ structure = Null => expandedFolders = {}

\* C26: the expansion state holds only directory paths of the tree held,
\* and it is empty until the first onStructureUpdate call.
C26_ExpansionWithinTree ==
  /\ ExpansionWithinTree
  /\ lastUpdate = Null => expandedFolders = {}

\* An archive tree is held in the folder view and a click has just
\* collapsed one of its folders, leaving another one expanded.
C26_Witness ==
  /\ structure # Null
  /\ viewMode = "folder"
  /\ lastOp.op = "toggleFolder"
  /\ "fileMap" \in DOMAIN structure
  /\ expandedFolders # {}
  /\ expandedFolders # newSet(getAllFolderPaths(structure))

\* C27: every drop that is being processed eventually ends, as a success
\* or as a failure; and right after a drop has ended, the last
\* onStructureUpdate call carried either the tree or an error message, and
\* isLoading is false.
C27_IngestionTerminates ==
  /\ \A job \in JobValues :
       BagIn(job, jobs) ~>
         (/\ lastOp.op = "handleDrop"
          /\ lastOp.item = job.item
          /\ lastOp.outcome \in {"succeeded", "failed"})
  /\ []((DropEnded("succeeded") \/ DropEnded("failed")) =>
          /\ ~isLoading
          /\ lastUpdate # Null
          /\ (lastUpdate.structure # Null) # (lastUpdate.error # Null)
          /\ structure = lastUpdate.structure
          /\ error = lastUpdate.error)

\* The drop of a directory has ended as a success while the drop of an
\* archive is still being processed.
C27_Witness ==
  /\ DropEnded("succeeded")
  /\ Items[lastOp.item].entry.isDirectory
  /\ \E job \in BagToSet(jobs) : job.tag = "zip"

\* C28: while a drop is being processed, from the start of handleDrop to
\* the delivery of its tree or error, isLoading is true, in the text view
\* and in the folder view.
C28_LoadingWhileIngesting ==
  jobs # EmptyBag => isLoading

\* The orderings of a sequence of entries.
Orderings(files) ==
  {[k \in 1..Len(files) |-> files[p[k]]] :
     p \in {q \in [1..Len(files) -> 1..Len(files)] :
              \A x, y \in 1..Len(files) : x # y => q[x] # q[y]}}

\* C29: the tree extractZipStructure returns for an archive, its file
\* index included, is the tree it returns for every other ordering of the
\* same entries.
C29_OrderIndependence ==
  ReturnedArchiveTree =>
    \A files \in Orderings(bSource.files) :
      LET r == extractAfterLoad([bSource EXCEPT !.files = files])
      IN  r.ok /\ r.value = bTree

\* C30: the walk over the entries of a decoded archive within the size
\* limit never throws, whatever the entry paths and directory flags are.
C30_WalkNeverFails ==
  IsArchive(bSource) => bPhase # "threw"

====
